---------------------------- MODULE Spec2Model ----------------------------
(***************************************************************************)
(* A model of the JetStream read iterator of conduit-connector-nats        *)
(* (source/jetstream/iterator.go): the buffered delivery channel that the  *)
(* subscription fills, the operations Next, Ack, HasNext and Stop of the   *)
(* pipeline, each goroutine step by step, and the queue of unacknowledged  *)
(* messages guarded by the iterator lock.  The payload of a message goes   *)
(* into its record unchanged and takes no part in any decision: it is left *)
(* out of the messages and the records.  Further specifications stand      *)
(* beside it: SpecPoll, the iterator with a source that polls HasNext;     *)
(* SpecConfig, the consumer configuration an iterator is built with from   *)
(* the position of the last record read; SpecBuild, NewIterator as a whole *)
(* and the Stop of the iterator it returns; and SpecWriter, the writer of  *)
(* the destination (destination/jetstream/writer.go).                      *)
(***************************************************************************)
EXTENDS Integers, Sequences, FiniteSets, TLC

(***************************************************************************)
(* Bounds of the model.                                                    *)
(***************************************************************************)
\* IteratorParams.BufferSize: the capacity of the messages channel.
BufferSize == 2
\* The number of messages the broker delivers in one behaviour.
MaxDeliver == 2
\* The stream sequences the broker's messages carry.
MaxSeq == 2
\* The broker timestamps (0 is the zero time.Time).
MaxTs == 1
\* The width of the sequence numbers (uint64 in the code, scaled down).
SeqBits == 4

SeqModulus == 2 ^ SeqBits

(***************************************************************************)
(* Values.                                                                 *)
(***************************************************************************)
AckNonePolicy == "none"
AckAllPolicy == "all"
AckExplicitPolicy == "explicit"
AckPolicies == {AckNonePolicy, AckAllPolicy, AckExplicitPolicy}

\* consumerInfo.Name, consumerInfo.Stream and subscription.Subject of the
\* one iterator instance.
Durable == "durable"
Stream == "stream"
Subject == "subject"

\* The goroutines that call Ack (the pipeline may ack concurrently).
Ackers == {"ack1", "ack2"}

\* The nil *nats.Msg: what a receive from a closed channel yields.
NilMsg == [id |-> 0, js |-> FALSE, seq |-> 0, ts |-> 0]

\* The timestamp the stream has stored for the message at a sequence: a
\* redelivery carries the same one.  The first is the zero time.
StreamTimestamp(seq) == (seq - 1) % (MaxTs + 1)

\* A message the subscription puts on the channel.  id is the identity of
\* the *nats.Msg (one per delivery); js says whether msg.Metadata() can read
\* JetStream metadata from it; seq is metadata.Sequence.Stream and ts is
\* metadata.Timestamp.  A message without metadata has neither.
JsMsgs(id) ==
    {[id |-> id, js |-> TRUE, seq |-> q, ts |-> StreamTimestamp(q)] :
        q \in 1..MaxSeq}
PlainMsgs(id) == {[id |-> id, js |-> FALSE, seq |-> 0, ts |-> 0]}
Msgs(id) == JsMsgs(id) \cup PlainMsgs(id)

NoRecord == [Position |-> <<>>, CreatedAt |-> 0]

(***************************************************************************)
(* Positions.                                                              *)
(***************************************************************************)
\* position.marshalSDKPosition: the position's five fields serialised, in
\* the order the struct declares them, into the opaque sdk.Position.
marshalSDKPosition(p) ==
    <<p.Durable, p.Stream, p.Subject, p.Timestamp, p.OptSeq>>

\* msg.Metadata(): fails for the nil message and for a message that
\* carries no JetStream metadata.
MetadataOk(msg) == msg.js

\* getMessagePosition without the message's sequence and timestamp.
getMessagePosition_NoSequence(msg) ==
    IF ~MetadataOk(msg)
    THEN [err |-> "get message metadata", position |-> <<>>]
    ELSE [err |-> "",
          position |-> marshalSDKPosition(
              [Durable |-> Durable, Stream |-> Stream, Subject |-> Subject,
               Timestamp |-> 0, OptSeq |-> 1])]

\* Iterator.getMessagePosition: the position of a message, with the stream
\* sequence advanced by one (uint64 arithmetic).
getMessagePosition(msg) ==
    IF ~MetadataOk(msg)
    THEN [err |-> "get message metadata", position |-> <<>>]
    ELSE [err |-> "",
          position |-> marshalSDKPosition(
              [Durable |-> Durable, Stream |-> Stream, Subject |-> Subject,
               Timestamp |-> msg.ts,
               OptSeq |-> (msg.seq + 1) % SeqModulus])]

\* messageToRecord with the current-time fallback applied before the
\* position is computed, so that it reaches the position.
messageToRecord_FallbackInPosition(msg, now) ==
    LET pos == getMessagePosition(msg)
        created == IF msg.ts = 0 THEN now ELSE msg.ts IN
    IF pos.err # ""
    THEN [err |-> "get position", record |-> NoRecord]
    ELSE [err |-> "",
          record |-> [Position |-> [pos.position EXCEPT ![4] = created],
                      CreatedAt |-> created]]

\* Iterator.messageToRecord: the record of a message; now is time.Now(),
\* used as the creation time when the broker's timestamp is zero.
messageToRecord(msg, now) ==
    LET pos == getMessagePosition(msg) IN
    IF pos.err # ""
    THEN [err |-> "get position", record |-> NoRecord]
    ELSE IF ~MetadataOk(msg)
    THEN [err |-> "get message metadata", record |-> NoRecord]
    ELSE [err |-> "",
          record |-> [Position |-> pos.position,
                      CreatedAt |-> IF msg.ts = 0 THEN now ELSE msg.ts]]

\* canAck without the comparison of the positions.
canAck_NoOrderCheck(unack, sdkPosition) ==
    IF Len(unack) = 0 THEN "no unacknowledged messages" ELSE "ok"

\* Iterator.canAck: whether the message at sdkPosition may be acknowledged
\* now, given the queue of unacknowledged messages.
canAck(unack, sdkPosition) ==
    IF Len(unack) = 0
    THEN "no unacknowledged messages"
    ELSE LET pos == getMessagePosition(unack[1]) IN
         IF pos.err # ""
         THEN "get position"
         ELSE IF pos.position # sdkPosition
         THEN "ack is out-of-order"
         ELSE "ok"

\* The positions the pipeline may present to Ack: the position of any
\* message with metadata, and one that no message has.
UnknownPosition == <<"other">>
AckPositions ==
    {getMessagePosition(m).position : m \in JsMsgs(0)} \cup {UnknownPosition}

(***************************************************************************)
(* The consumer configuration.                                             *)
(***************************************************************************)
\* nats.DeliverPolicy: the two the connector's configuration accepts, and
\* the one that resumes at a sequence.
DeliverAllPolicy == "all"
DeliverNewPolicy == "new"
DeliverByStartSequencePolicy == "by_start_sequence"
DeliverPolicies == {DeliverAllPolicy, DeliverNewPolicy}

ReplayInstantPolicy == "instant"

\* The heartbeat of the consumer, in seconds.
heartbeatTimeout == 2

\* The zero value of the position struct.
ZeroPosition ==
    [Durable |-> "", Stream |-> "", Subject |-> "", Timestamp |-> 0,
     OptSeq |-> 0]

\* A token that is the serialisation of no position.
MalformedPosition == <<"{">>

\* parsePosition: the inverse of marshalSDKPosition.  The empty (nil) token
\* decodes to the zero position, a malformed one to an error.
parsePosition(sdkPosition) ==
    IF sdkPosition = <<>>
    THEN [err |-> "", position |-> ZeroPosition]
    ELSE IF Len(sdkPosition) # 5
    THEN [err |-> "unmarshal sdk.Position into Position",
          position |-> ZeroPosition]
    ELSE [err |-> "",
          position |-> [Durable |-> sdkPosition[1],
                        Stream |-> sdkPosition[2],
                        Subject |-> sdkPosition[3],
                        Timestamp |-> sdkPosition[4],
                        OptSeq |-> sdkPosition[5]]]

\* The nil *nats.ConsumerConfig.
NilConfig ==
    [Durable |-> "", ReplayPolicy |-> "", DeliverSubject |-> <<>>,
     DeliverPolicy |-> "", OptStartSeq |-> 0, AckPolicy |-> "",
     FlowControl |-> FALSE, Heartbeat |-> 0]

\* getConsumerConfig that resumes nowhere: the configured deliver policy
\* whatever the position.
getConsumerConfig_IgnoresPosition(p) ==
    IF parsePosition(p.SDKPosition).err # ""
    THEN [err |-> "parse position", config |-> NilConfig]
    ELSE [err |-> "",
          config |-> [Durable |-> p.Durable,
                      ReplayPolicy |-> ReplayInstantPolicy,
                      DeliverSubject |-> <<p.Durable, ".", p.Stream>>,
                      DeliverPolicy |-> p.DeliverPolicy,
                      OptStartSeq |-> 0,
                      AckPolicy |-> p.AckPolicy,
                      FlowControl |-> TRUE,
                      Heartbeat |-> heartbeatTimeout]]

\* getConsumerConfig that takes a position it cannot decode for none.
getConsumerConfig_NoParseError(p) ==
    LET parsed == parsePosition(p.SDKPosition)
        position == IF parsed.err # "" THEN ZeroPosition ELSE parsed.position
    IN  [err |-> "",
         config |-> [Durable |-> p.Durable,
                     ReplayPolicy |-> ReplayInstantPolicy,
                     DeliverSubject |-> <<p.Durable, ".", p.Stream>>,
                     DeliverPolicy |-> IF position.OptSeq # 0
                                       THEN DeliverByStartSequencePolicy
                                       ELSE p.DeliverPolicy,
                     OptStartSeq |-> position.OptSeq,
                     AckPolicy |-> p.AckPolicy,
                     FlowControl |-> TRUE,
                     Heartbeat |-> heartbeatTimeout]]

\* getConsumerConfig: the consumer configuration for the parameters; a
\* position with a sequence overrides the configured deliver policy.
getConsumerConfig(p) ==
    LET parsed == parsePosition(p.SDKPosition)
        position == parsed.position
        resumes == position.OptSeq # 0
        deliverPolicy == IF resumes THEN DeliverByStartSequencePolicy
                         ELSE p.DeliverPolicy
        startSeq == IF resumes THEN position.OptSeq ELSE 0
    IN  IF parsed.err # ""
        THEN [err |-> "parse position", config |-> NilConfig]
        ELSE [err |-> "",
              config |-> [Durable |-> p.Durable,
                          ReplayPolicy |-> ReplayInstantPolicy,
                          DeliverSubject |-> <<p.Durable, ".", p.Stream>>,
                          DeliverPolicy |-> deliverPolicy,
                          OptStartSeq |-> startSeq,
                          AckPolicy |-> p.AckPolicy,
                          FlowControl |-> TRUE,
                          Heartbeat |-> heartbeatTimeout]]

\* The messages of a stream: every sequence a uint64 can hold, from the
\* first a stream assigns.
StreamMsgs ==
    {[id |-> 0, js |-> TRUE, seq |-> q, ts |-> StreamTimestamp(q)] :
        q \in 1..(SeqModulus - 1)}

\* The positions a pipeline may hand to NewIterator: none (a first start),
\* the position of a record it has read, or a token it cannot have got from
\* this connector.
StoredPositions ==
    {<<>>, MalformedPosition}
        \cup {getMessagePosition(m).position : m \in StreamMsgs}

\* The parameters of an iterator.
IteratorParamsSet ==
    [SDKPosition : StoredPositions, DeliverPolicy : DeliverPolicies,
     AckPolicy : AckPolicies, Durable : {Durable}, Stream : {Stream}]

\* No consumer configuration has been built yet.
NotBuilt == <<>>

\* No parameters: those of a component that is not there.
NoParams == <<>>

\* NewIterator has not been called.
NotCalled == <<>>

(***************************************************************************)
(* The publish options of the writer.                                      *)
(***************************************************************************)
\* The retry waits (in seconds) and the retry attempts a configuration may
\* hold; both are signed in the code.
MaxRetryWait == 5
MaxRetryAttempts == 3
\* WriterParams.BatchSize.
MaxBatchSize == 2
\* The number of Write calls and of Close calls in one behaviour.
MaxWrite == 2
MaxClose == 2

RetryWaits == (0 - 1)..MaxRetryWait
RetryAttemptsSet == (0 - 1)..MaxRetryAttempts
BatchSizes == 0..MaxBatchSize

\* record.Payload.After of the records written.
Payloads == {"a", "b"}

\* nats.RetryWait(d) and nats.RetryAttempts(n), the publish options.
RetryWait(d) == [option |-> "RetryWait", value |-> d]
RetryAttempts(n) == [option |-> "RetryAttempts", value |-> n]

\* getPublishOptions that always sets both options.
getPublishOptions_Always(p) ==
    <<RetryWait(p.RetryWait), RetryAttempts(p.RetryAttempts)>>

\* getPublishOptions: the publish options of the parameters, an option for
\* each retry setting that is not zero.
getPublishOptions(p) ==
    LET opts0 == <<>>
        opts1 == IF p.RetryWait # 0
                 THEN Append(opts0, RetryWait(p.RetryWait))
                 ELSE opts0
        opts2 == IF p.RetryAttempts # 0
                 THEN Append(opts1, RetryAttempts(p.RetryAttempts))
                 ELSE opts1
    IN  opts2

\* The parameters of a writer; Conn is the state of the connection they
\* carry, which the destination has opened and may have lost since.
WriterParamsSet ==
    [Conn : {"open", "closed"}, Subject : {Subject}, BatchSize : BatchSizes,
     RetryWait : RetryWaits, RetryAttempts : RetryAttemptsSet]

\* No Writer has been built yet.
NoWriter == <<>>

(***************************************************************************)
(* State.                                                                  *)
(***************************************************************************)
VARIABLES
    ackPolicy,        \* consumerInfo.Config.AckPolicy
    messages,         \* the buffered contents of the messages channel
    unackMessages,    \* Iterator.unackMessages
    mu,               \* the holder of the iterator's sync.Mutex, or "free"
    nextPc,           \* where the goroutine calling Next is
    nextMsg,          \* the message Next received from the channel
    nextRec,          \* the record Next converted it to
    ctxDone,          \* whether the context of the Next at its select is done
    lastNext,         \* what the last Next call returned
    ackPc,            \* where each goroutine calling Ack is
    ackPos,           \* the position each running Ack was called with
    lastAck,          \* the error the last Ack call returned, or "ok"
    delivered,        \* how many messages the channel has accepted
    returned,         \* the messages Next has returned as records, in order
    acked,            \* the messages acknowledged with the broker, in order
    stopPc,           \* where the goroutine calling Stop is
    subscribed,       \* whether the subscription is still valid
    chanClosed,       \* whether the messages channel has been closed
    consumerExists,   \* whether the broker still has the durable consumer
    connOpen,         \* whether the connection is open
    lastStop,         \* what the last Stop call returned
    params,           \* IteratorParams of the iterator that is built next
    consumed,         \* the records the pipeline has read, with sequences
    consumerConfig,   \* what getConsumerConfig returned for params
    writerParams,     \* WriterParams given to NewWriter
    writer,           \* the Writer NewWriter built
    published,        \* the calls of jetstream.Publish, in order
    writeResults,     \* the Write calls: the payload and what was returned
    closeResults,     \* what the Close calls returned, in order
    hasNext,          \* what the last HasNext call returned, and when
    newIterator       \* what NewIterator returned for params

vars == <<ackPolicy, messages, unackMessages, mu, nextPc, nextMsg, nextRec,
          ctxDone, lastNext, ackPc, ackPos, lastAck, delivered, returned,
          acked, stopPc, subscribed, chanClosed, consumerExists, connOpen,
          lastStop, params, consumed, consumerConfig, writerParams, writer,
          published, writeResults, closeResults, hasNext,
          newIterator>>

configVars == <<params, consumed, consumerConfig, newIterator>>
writerVars == <<writerParams, writer, published, writeResults,
                closeResults>>
\* What Next, Ack and Stop of a running iterator do not touch: its ack
\* policy, the result of HasNext, the parameters of a later iterator, and
\* the destination's writer.
fixedVars == <<ackPolicy, hasNext, configVars, writerVars>>

iterVars == <<messages, unackMessages, mu, nextPc, nextMsg, nextRec, ctxDone,
              lastNext, delivered, returned>>
ackVars == <<ackPc, ackPos, lastAck, acked>>
stopVars == <<stopPc, subscribed, chanClosed, consumerExists, connOpen,
              lastStop>>
iteratorVars == <<ackPolicy, hasNext, iterVars, ackVars, stopVars>>

NoNext == [kind |-> "none", record |-> NoRecord]

\* No HasNext call yet.
NoPoll == <<>>

\* NewIterator: an empty channel and an empty queue; the ack policy is the
\* one the consumer was created with.
IteratorInit ==
    /\ ackPolicy \in AckPolicies
    /\ messages = <<>>
    /\ unackMessages = <<>>
    /\ mu = "free"
    /\ nextPc = "idle"
    /\ nextMsg = NilMsg
    /\ nextRec = NoRecord
    /\ ctxDone = FALSE
    /\ lastNext = NoNext
    /\ ackPc = [a \in Ackers |-> "idle"]
    /\ ackPos = [a \in Ackers |-> <<>>]
    /\ lastAck = "none"
    /\ delivered = 0
    /\ returned = <<>>
    /\ acked = <<>>
    /\ stopPc = "idle"
    /\ subscribed = TRUE
    /\ chanClosed = FALSE
    /\ consumerExists = TRUE
    /\ connOpen = TRUE
    /\ lastStop = "none"
    /\ hasNext = NoPoll

\* Nothing read, no consumer configuration built, NewIterator not called.
ConfigEmpty ==
    /\ consumed = <<>>
    /\ consumerConfig = NotBuilt
    /\ newIterator = NotCalled

\* No writer built, nothing written and nothing closed.
WriterEmpty ==
    /\ writer = NoWriter
    /\ published = <<>>
    /\ writeResults = <<>>
    /\ closeResults = <<>>

\* The parameters a pipeline keeps for the iterator it builds next, before
\* any consumer configuration is built from them.
ConfigInit == params \in IteratorParamsSet /\ ConfigEmpty

\* The parameters of a writer, before NewWriter has run.
WriterInit == writerParams \in WriterParamsSet /\ WriterEmpty

\* A component that takes no part in a behaviour stays in one initial state.
IteratorIdle == IteratorInit /\ ackPolicy = AckExplicitPolicy
ConfigIdle == params = NoParams /\ ConfigEmpty
WriterIdle == writerParams = NoParams /\ WriterEmpty

\* The running iterator of a source.
Init == IteratorInit /\ ConfigIdle /\ WriterIdle

\* A Lock that does not wait.
LockFree_NoWait == TRUE

\* sync.Mutex: Lock blocks until the mutex is free.
LockFree == mu = "free"

\* A Next that queues under every policy.
queuesUnack_Always(policy) == TRUE

\* Whether Next queues the message it returns as unacknowledged.
queuesUnack(policy) == policy # AckNonePolicy

\* Whether Ack returns nil without doing anything.
ackIsNoOp(policy) == policy = AckNonePolicy

\* A receive of the message buffered last.
chanReceive_Last(ch) ==
    [msg |-> ch[Len(ch)], rest |-> SubSeq(ch, 1, Len(ch) - 1)]

\* msg := <-i.messages on a channel with buffered messages: the message
\* received and what stays buffered.
chanReceive(ch) == [msg |-> Head(ch), rest |-> Tail(ch)]

\* A HasNext that also reports a closed channel, whose receive is ready.
HasNext_OrClosed == Len(messages) > 0 \/ chanClosed

\* Iterator.HasNext.
HasNext == Len(messages) > 0

\* How many messages have left the channel.
Drained == delivered - Len(messages)

\* A call of HasNext, from any goroutine at any time: it returns
\* len(i.messages) > 0 and changes nothing.  With the result are kept how
\* many messages had left the channel and whether a Next was running.
HasNextCall ==
    /\ hasNext' = [result |-> HasNext, drained |-> Drained,
                   nextIdle |-> nextPc = "idle"]
    /\ UNCHANGED <<ackPolicy, configVars, writerVars>>
    /\ UNCHANGED iterVars
    /\ UNCHANGED ackVars
    /\ UNCHANGED stopVars

(***************************************************************************)
(* The subscription: the broker client's goroutine sends each message it   *)
(* receives on the messages channel.  A goroutine parked in a receive      *)
(* gets the message handed over directly; otherwise it is buffered.  With  *)
(* the buffer full the client does not accept the message.                 *)
(***************************************************************************)
Deliver(m) ==
    /\ subscribed /\ connOpen /\ ~chanClosed
    /\ delivered < MaxDeliver
    /\ m.id = delivered + 1
    /\ delivered' = delivered + 1
    /\ \/ /\ nextPc = "parked"
          /\ nextMsg' = m
          /\ nextPc' = "convert"
          /\ UNCHANGED messages
       \/ /\ nextPc # "parked"
          /\ Len(messages) < BufferSize
          /\ messages' = Append(messages, m)
          /\ UNCHANGED <<nextMsg, nextPc>>
    /\ UNCHANGED <<fixedVars, unackMessages, mu, nextRec, ctxDone, lastNext,
                   returned>>
    /\ UNCHANGED ackVars
    /\ UNCHANGED stopVars

(***************************************************************************)
(* Iterator.Next, called by one goroutine of the pipeline.                 *)
(***************************************************************************)
NextCall ==
    /\ nextPc = "idle"
    /\ nextPc' = "select"
    /\ ctxDone' = FALSE
    /\ UNCHANGED <<fixedVars, messages, unackMessages, mu, nextMsg, nextRec,
                   lastNext, delivered, returned>>
    /\ UNCHANGED ackVars
    /\ UNCHANGED stopVars

\* The caller's context is cancelled while Next runs.  A Next parked in the
\* select is woken by it: the select has chosen ctx.Done().
Cancel ==
    /\ nextPc \in {"select", "parked"}
    /\ ~ctxDone
    /\ ctxDone' = TRUE
    /\ nextPc' = IF nextPc = "parked" THEN "cancelled" ELSE nextPc
    /\ UNCHANGED <<fixedVars, messages, unackMessages, mu, nextMsg, nextRec,
                   lastNext, delivered, returned>>
    /\ UNCHANGED ackVars
    /\ UNCHANGED stopVars

\* Whether the receive of the select can proceed: a buffered message, or a
\* closed channel (which yields the nil message once it is drained).
RecvReady == Len(messages) > 0 \/ chanClosed

\* The select of Next, case msg := <-i.messages.  Next does not consult the
\* context again.
NextReceive ==
    /\ nextPc = "select"
    /\ RecvReady
    /\ IF Len(messages) > 0
       THEN /\ nextMsg' = chanReceive(messages).msg
            /\ messages' = chanReceive(messages).rest
       ELSE /\ nextMsg' = NilMsg
            /\ UNCHANGED messages
    /\ nextPc' = "convert"
    /\ ctxDone' = FALSE
    /\ UNCHANGED <<fixedVars, unackMessages, mu, nextRec, lastNext,
                   delivered, returned>>
    /\ UNCHANGED ackVars
    /\ UNCHANGED stopVars

\* The select of Next, case <-ctx.Done().
NextDone ==
    /\ nextPc = "select"
    /\ ctxDone
    /\ nextPc' = "cancelled"
    /\ UNCHANGED <<fixedVars, messages, unackMessages, mu, nextMsg, nextRec,
                   ctxDone, lastNext, delivered, returned>>
    /\ UNCHANGED ackVars
    /\ UNCHANGED stopVars

\* The select of Next with no case ready: the goroutine parks.
NextPark ==
    /\ nextPc = "select"
    /\ ~RecvReady /\ ~ctxDone
    /\ nextPc' = "parked"
    /\ UNCHANGED <<fixedVars, messages, unackMessages, mu, nextMsg, nextRec,
                   ctxDone, lastNext, delivered, returned>>
    /\ UNCHANGED ackVars
    /\ UNCHANGED stopVars

\* A return on cancellation that takes a buffered message along.
NextCancelled_Drains ==
    /\ nextPc = "cancelled"
    /\ nextPc' = "idle"
    /\ lastNext' = [kind |-> "cancelled", record |-> NoRecord]
    /\ ctxDone' = FALSE
    /\ messages' = IF messages = <<>> THEN messages ELSE Tail(messages)
    /\ UNCHANGED <<fixedVars, unackMessages, mu, nextMsg, nextRec,
                   delivered, returned>>
    /\ UNCHANGED ackVars
    /\ UNCHANGED stopVars

\* return sdk.Record{}, ctx.Err()
NextCancelled ==
    /\ nextPc = "cancelled"
    /\ nextPc' = "idle"
    /\ lastNext' = [kind |-> "cancelled", record |-> NoRecord]
    /\ ctxDone' = FALSE
    /\ UNCHANGED <<fixedVars, messages, unackMessages, mu, nextMsg, nextRec,
                   delivered, returned>>
    /\ UNCHANGED ackVars
    /\ UNCHANGED stopVars

\* What Next does with the received message up to the lock: it converts
\* the message; on an error it returns the error; with the ack policy
\* 'none' it returns the record; otherwise it goes on to the lock.
NextConvert ==
    /\ nextPc = "convert"
    /\ \E now \in 1..MaxTs :
         LET r == messageToRecord(nextMsg, now) IN
         IF r.err # ""
         THEN /\ lastNext' = [kind |-> "convert error", record |-> NoRecord]
              /\ nextPc' = "idle"
              /\ nextMsg' = NilMsg
              /\ UNCHANGED <<nextRec, returned>>
         ELSE IF queuesUnack(ackPolicy)
         THEN /\ nextRec' = r.record
              /\ nextPc' = "lock"
              /\ UNCHANGED <<lastNext, nextMsg, returned>>
         ELSE /\ lastNext' = [kind |-> "record", record |-> r.record]
              /\ returned' = Append(returned, nextMsg)
              /\ nextPc' = "idle"
              /\ nextMsg' = NilMsg
              /\ UNCHANGED nextRec
    /\ UNCHANGED <<fixedVars, messages, unackMessages, mu, ctxDone, delivered>>
    /\ UNCHANGED ackVars
    /\ UNCHANGED stopVars

\* i.Lock()
NextLock ==
    /\ nextPc = "lock"
    /\ LockFree
    /\ mu' = "next"
    /\ nextPc' = "append"
    /\ UNCHANGED <<fixedVars, messages, unackMessages, nextMsg, nextRec,
                   ctxDone, lastNext, delivered, returned>>
    /\ UNCHANGED ackVars
    /\ UNCHANGED stopVars

\* The queue after Next has appended msg to it.
appendUnack(unack, msg) == Append(unack, msg)

\* i.unackMessages = append(i.unackMessages, msg); i.Unlock(); return
NextAppend ==
    /\ nextPc = "append"
    /\ unackMessages' = appendUnack(unackMessages, nextMsg)
    /\ mu' = "free"
    /\ lastNext' = [kind |-> "record", record |-> nextRec]
    /\ returned' = Append(returned, nextMsg)
    /\ nextPc' = "idle"
    /\ nextMsg' = NilMsg
    /\ nextRec' = NoRecord
    /\ UNCHANGED <<fixedVars, messages, ctxDone, delivered>>
    /\ UNCHANGED ackVars
    /\ UNCHANGED stopVars

(***************************************************************************)
(* Iterator.Ack, called by the goroutines of Ackers.                       *)
(***************************************************************************)
\* The entry of Ack: with the ack policy 'none' it returns nil at once;
\* otherwise it takes the lock.  Lock blocks until the mutex is free, and a
\* call that waits for it has done nothing yet: the call is taken up from
\* the moment it gets the lock.
AckCall(a, pos) ==
    /\ ackPc[a] = "idle"
    /\ IF ackIsNoOp(ackPolicy)
       THEN /\ lastAck' = "ok"
            /\ UNCHANGED <<ackPc, ackPos, mu>>
       ELSE /\ LockFree
            /\ mu' = a
            /\ ackPc' = [ackPc EXCEPT ![a] = "locked"]
            /\ ackPos' = [ackPos EXCEPT ![a] = pos]
            /\ UNCHANGED lastAck
    /\ UNCHANGED <<fixedVars, messages, unackMessages, nextPc, nextMsg,
                   nextRec, ctxDone, lastNext, delivered, returned>>
    /\ UNCHANGED acked
    /\ UNCHANGED stopVars

\* msg.Ack(): the acknowledgment may fail, and fails on a closed connection.
BrokerAckOutcomes == IF connOpen THEN {TRUE, FALSE} ELSE {FALSE}

\* A removal of the last message of the queue instead of the first.
popUnack_Last(unack) == SubSeq(unack, 1, Len(unack) - 1)

\* No removal at all.
popUnack_Keep(unack) == unack

\* The queue after Ack has removed the acknowledged message from it.
popUnack(unack) == Tail(unack)

\* A body of Ack that removes the head although the broker's acknowledgment
\* of it failed.
AckBody_PopsOnFailure(a) ==
    /\ ackPc[a] = "locked"
    /\ LET check == canAck(unackMessages, ackPos[a]) IN
       IF check # "ok"
       THEN /\ lastAck' = check
            /\ UNCHANGED <<unackMessages, acked>>
       ELSE \E ok \in BrokerAckOutcomes :
              /\ unackMessages' = popUnack(unackMessages)
              /\ IF ok
                 THEN /\ acked' = Append(acked, unackMessages[1])
                      /\ lastAck' = "ok"
                 ELSE /\ lastAck' = "ack message"
                      /\ UNCHANGED acked
    /\ mu' = "free"
    /\ ackPc' = [ackPc EXCEPT ![a] = "idle"]
    /\ ackPos' = [ackPos EXCEPT ![a] = <<>>]
    /\ UNCHANGED <<fixedVars, messages, nextPc, nextMsg, nextRec, ctxDone,
                   lastNext, delivered, returned>>
    /\ UNCHANGED stopVars

\* The body of Ack under the lock: the check, the broker's acknowledgment of
\* the head, its removal; the deferred Unlock; the return.
AckBody(a) ==
    /\ ackPc[a] = "locked"
    /\ LET check == canAck(unackMessages, ackPos[a]) IN
       IF check # "ok"
       THEN /\ lastAck' = check
            /\ UNCHANGED <<unackMessages, acked>>
       ELSE \E ok \in BrokerAckOutcomes :
              IF ok
              THEN /\ acked' = Append(acked, unackMessages[1])
                   /\ unackMessages' = popUnack(unackMessages)
                   /\ lastAck' = "ok"
              ELSE /\ lastAck' = "ack message"
                   /\ UNCHANGED <<unackMessages, acked>>
    /\ mu' = "free"
    /\ ackPc' = [ackPc EXCEPT ![a] = "idle"]
    /\ ackPos' = [ackPos EXCEPT ![a] = <<>>]
    /\ UNCHANGED <<fixedVars, messages, nextPc, nextMsg, nextRec, ctxDone,
                   lastNext, delivered, returned>>
    /\ UNCHANGED stopVars

(***************************************************************************)
(* Iterator.Stop, called by one goroutine.  The subscription is never nil  *)
(* and neither are the JetStream context and the connection.               *)
(***************************************************************************)
StopCall ==
    /\ stopPc = "idle"
    /\ stopPc' = "unsubscribe"
    /\ UNCHANGED <<subscribed, chanClosed, consumerExists, connOpen, lastStop>>
    /\ UNCHANGED fixedVars
    /\ UNCHANGED iterVars
    /\ UNCHANGED ackVars

\* i.subscription.Unsubscribe(): fails on a subscription that is no longer
\* valid and on a closed connection, and may fail otherwise.
UnsubscribeOutcomes == IF subscribed /\ connOpen THEN {TRUE, FALSE} ELSE {FALSE}

StopUnsubscribe ==
    /\ stopPc = "unsubscribe"
    /\ \E ok \in UnsubscribeOutcomes :
         IF ok
         THEN /\ subscribed' = FALSE
              /\ stopPc' = "close"
              /\ UNCHANGED lastStop
         ELSE /\ lastStop' = "unsubscribe"
              /\ stopPc' = "idle"
              /\ UNCHANGED subscribed
    /\ UNCHANGED <<chanClosed, consumerExists, connOpen>>
    /\ UNCHANGED fixedVars
    /\ UNCHANGED iterVars
    /\ UNCHANGED ackVars

\* A close of the channel that does not wake a Next parked in the receive.
StopClose_NoWake ==
    /\ stopPc = "close"
    /\ chanClosed' = TRUE
    /\ stopPc' = "delete"
    /\ UNCHANGED <<subscribed, consumerExists, connOpen, lastStop>>
    /\ UNCHANGED fixedVars
    /\ UNCHANGED iterVars
    /\ UNCHANGED ackVars

\* close(i.messages): a Next parked in the receive is woken with the nil
\* message.  (The channel is open here: it is closed only after an
\* Unsubscribe that succeeded, and no later Unsubscribe succeeds.)
StopClose ==
    /\ stopPc = "close"
    /\ chanClosed' = TRUE
    /\ stopPc' = "delete"
    /\ IF nextPc = "parked"
       THEN /\ nextPc' = "convert"
            /\ nextMsg' = NilMsg
       ELSE UNCHANGED <<nextPc, nextMsg>>
    /\ UNCHANGED <<subscribed, consumerExists, connOpen, lastStop>>
    /\ UNCHANGED <<fixedVars, messages, unackMessages, mu, nextRec, ctxDone,
                   lastNext, delivered, returned>>
    /\ UNCHANGED ackVars

\* i.jetstream.DeleteConsumer(...): fails on a closed connection and for a
\* consumer the broker no longer has, and may fail otherwise.
DeleteConsumerOutcomes ==
    IF consumerExists /\ connOpen THEN {TRUE, FALSE} ELSE {FALSE}

\* A Stop that goes on to close the connection when the deletion of the
\* consumer has failed.
StopDelete_Continues ==
    /\ stopPc = "delete"
    /\ \E ok \in DeleteConsumerOutcomes :
         IF ok
         THEN consumerExists' = FALSE
         ELSE UNCHANGED consumerExists
    /\ stopPc' = "connclose"
    /\ UNCHANGED <<subscribed, chanClosed, connOpen, lastStop>>
    /\ UNCHANGED fixedVars
    /\ UNCHANGED iterVars
    /\ UNCHANGED ackVars

StopDelete ==
    /\ stopPc = "delete"
    /\ \E ok \in DeleteConsumerOutcomes :
         IF ok
         THEN /\ consumerExists' = FALSE
              /\ stopPc' = "connclose"
              /\ UNCHANGED lastStop
         ELSE /\ lastStop' = "delete consumer"
              /\ stopPc' = "idle"
              /\ UNCHANGED consumerExists
    /\ UNCHANGED <<subscribed, chanClosed, connOpen>>
    /\ UNCHANGED fixedVars
    /\ UNCHANGED iterVars
    /\ UNCHANGED ackVars

\* i.conn.Close(); return nil
StopConnClose ==
    /\ stopPc = "connclose"
    /\ connOpen' = FALSE
    /\ lastStop' = "ok"
    /\ stopPc' = "idle"
    /\ UNCHANGED <<subscribed, chanClosed, consumerExists>>
    /\ UNCHANGED fixedVars
    /\ UNCHANGED iterVars
    /\ UNCHANGED ackVars

(***************************************************************************)
(* The specification.                                                      *)
(***************************************************************************)
Next ==
    \/ \E m \in Msgs(delivered + 1) : Deliver(m)
    \/ NextCall
    \/ Cancel
    \/ NextReceive
    \/ NextDone
    \/ NextPark
    \/ NextCancelled
    \/ NextConvert
    \/ NextLock
    \/ NextAppend
    \/ \E a \in Ackers, pos \in AckPositions : AckCall(a, pos)
    \/ \E a \in Ackers : AckBody(a)
    \/ StopCall
    \/ StopUnsubscribe
    \/ StopClose
    \/ StopDelete
    \/ StopConnClose

Spec == Init /\ [][Next]_vars

\* The steps the goroutine of Next takes on its own.
NextSteps ==
    NextReceive \/ NextDone \/ NextPark \/ NextCancelled \/ NextConvert
        \/ NextAppend

\* The scheduling of the Go runtime: a runnable goroutine runs, a holder of
\* the mutex releases it, and a goroutine waiting for the mutex gets it (a
\* sync.Mutex hands over to a starving waiter).
FairSpec ==
    /\ Spec
    /\ WF_vars(NextSteps)
    /\ SF_vars(NextLock)
    /\ \A a \in Ackers : WF_vars(AckBody(a))

\* The running iterator with a source that polls it with HasNext.
NextPoll ==
    \/ Next
    \/ HasNextCall

SpecPoll == Init /\ [][NextPoll]_vars

(***************************************************************************)
(* Resuming: the pipeline reads records and keeps the position of the last *)
(* one; the iterator it builds next gets its consumer configuration from   *)
(* that position.                                                          *)
(***************************************************************************)
\* The number of records the pipeline reads before it builds an iterator.
MaxConsumed == 2

\* The pipeline reads the record Next made of message m (messageToRecord)
\* and keeps its position for the next iterator.
Consume(m) ==
    /\ consumerConfig = NotBuilt
    /\ Len(consumed) < MaxConsumed
    /\ LET conv == messageToRecord(m, 1) IN
          /\ conv.err = ""
          /\ consumed' = Append(consumed,
                                [seq |-> m.seq, record |-> conv.record])
          /\ params' = [params EXCEPT !.SDKPosition = conv.record.Position]
    /\ UNCHANGED <<consumerConfig, newIterator, iteratorVars, writerVars>>

\* NewIterator, up to the consumer configuration it asks the broker for.
NewIteratorConfig ==
    /\ consumerConfig = NotBuilt
    /\ consumerConfig' = getConsumerConfig(params)
    /\ UNCHANGED <<params, consumed, newIterator, iteratorVars, writerVars>>

InitConfig == IteratorIdle /\ ConfigInit /\ WriterIdle

NextConfig ==
    \/ \E m \in StreamMsgs : Consume(m)
    \/ NewIteratorConfig

SpecConfig == InitConfig /\ [][NextConfig]_vars

(***************************************************************************)
(* The construction of an iterator, and the Stop of the iterator built.    *)
(***************************************************************************)
\* A return of NewIterator that deletes the consumer it has registered.
chanSubscribeFailed_Deletes(registered) == FALSE

\* The return of NewIterator after ChanSubscribe has failed: the consumer
\* that AddConsumer registered is left as it is.
chanSubscribeFailed(registered) == registered

\* What NewIterator returns: the error, and whether an iterator.
Returns(err, iterator) == [err |-> err, iterator |-> iterator]

\* NewIterator: the JetStream context, the consumer configuration, the
\* registration of the durable consumer, the channel and its subscription;
\* it returns at the first error.  The calls to the broker may fail.
NewIterator ==
    /\ newIterator = NotCalled
    /\ \E jsOk, addOk, subOk \in BOOLEAN :
         LET cc == getConsumerConfig(params) IN
         IF ~jsOk
         THEN /\ newIterator' = Returns("get jetstream context", FALSE)
              /\ UNCHANGED <<consumerConfig, consumerExists, subscribed>>
         ELSE IF cc.err # ""
         THEN /\ newIterator' = Returns("get consumer config", FALSE)
              /\ consumerConfig' = cc
              /\ UNCHANGED <<consumerExists, subscribed>>
         ELSE IF ~addOk
         THEN /\ newIterator' = Returns("add jetstream consumer", FALSE)
              /\ consumerConfig' = cc
              /\ UNCHANGED <<consumerExists, subscribed>>
         ELSE IF ~subOk
         THEN /\ newIterator' = Returns("chan subscribe", FALSE)
              /\ consumerConfig' = cc
              /\ consumerExists' = chanSubscribeFailed(TRUE)
              /\ UNCHANGED subscribed
         ELSE /\ newIterator' = Returns("", TRUE)
              /\ consumerConfig' = cc
              /\ consumerExists' = TRUE
              /\ subscribed' = TRUE
    /\ UNCHANGED <<ackPolicy, hasNext, params, consumed, writerVars>>
    /\ UNCHANGED iterVars
    /\ UNCHANGED ackVars
    /\ UNCHANGED <<stopPc, chanClosed, connOpen, lastStop>>

\* Before NewIterator: the connection of the parameters is open, and there
\* is no consumer, no subscription and no iterator yet; the ack policy is
\* the one the parameters ask for.
InitBuild ==
    /\ ConfigInit
    /\ WriterIdle
    /\ ackPolicy = params.AckPolicy
    /\ messages = <<>>
    /\ unackMessages = <<>>
    /\ mu = "free"
    /\ nextPc = "idle"
    /\ nextMsg = NilMsg
    /\ nextRec = NoRecord
    /\ ctxDone = FALSE
    /\ lastNext = NoNext
    /\ ackPc = [a \in Ackers |-> "idle"]
    /\ ackPos = [a \in Ackers |-> <<>>]
    /\ lastAck = "none"
    /\ delivered = 0
    /\ returned = <<>>
    /\ acked = <<>>
    /\ stopPc = "idle"
    /\ subscribed = FALSE
    /\ chanClosed = FALSE
    /\ consumerExists = FALSE
    /\ connOpen = TRUE
    /\ lastStop = "none"
    /\ hasNext = NoPoll

\* NewIterator has returned an iterator: only then is there an instance
\* whose operations can be called.
IteratorReturned == newIterator # NotCalled /\ newIterator.iterator

\* The construction, and Stop on the iterator it returned.
NextBuild ==
    \/ NewIterator
    \/ IteratorReturned /\ StopCall
    \/ StopUnsubscribe
    \/ StopClose
    \/ StopDelete
    \/ StopConnClose

SpecBuild == InitBuild /\ [][NextBuild]_vars

(***************************************************************************)
(* The writer of the destination (destination/jetstream/writer.go).        *)
(***************************************************************************)
\* jetstream.Publish: succeeds or fails on an open connection, fails on a
\* closed one.
PublishOutcomes == IF writer.conn = "open" THEN {TRUE, FALSE} ELSE {FALSE}

\* A Close that leaves the connection as it is.
connClose_Keeps(conn) == conn

\* conn.Close(): closes the connection; closing a closed one does nothing.
connClose(conn) == "closed"

\* NewWriter: the writer of the parameters, on the connection they carry
\* (Conn.JetStream() is called without options and does not fail).
NewWriter ==
    /\ writer = NoWriter
    /\ writer' = [conn |-> writerParams.Conn,
                  subject |-> writerParams.Subject,
                  batchSize |-> writerParams.BatchSize,
                  publishOpts |-> getPublishOptions(writerParams),
                  retryWait |-> writerParams.RetryWait,
                  retryAttempts |-> writerParams.RetryAttempts]
    /\ UNCHANGED <<writerParams, published, writeResults, closeResults,
                   iteratorVars, configVars>>

\* A Write that publishes whatever the batch size.
batchUnimplemented_Never(batchSize) == FALSE

\* Whether Write refuses the record because batches are not implemented.
batchUnimplemented(batchSize) == batchSize > 1

\* The call of jetstream.Publish that Write makes for the payload after.
publishCall(after, ok) ==
    [subject |-> writer.subject, data |-> after, opts |-> writer.publishOpts,
     ok |-> ok]

\* A Write that publishes a second time when the first publish fails.
Write_Retries(after) ==
    /\ writer # NoWriter
    /\ Len(writeResults) < MaxWrite
    /\ IF batchUnimplemented(writer.batchSize)
       THEN /\ writeResults' =
                  Append(writeResults,
                         [after |-> after, result |-> "unimplemented"])
            /\ UNCHANGED published
       ELSE \E ok1, ok2 \in PublishOutcomes :
                /\ published' =
                      IF ok1
                      THEN Append(published, publishCall(after, ok1))
                      ELSE published \o <<publishCall(after, ok1),
                                          publishCall(after, ok2)>>
                /\ writeResults' =
                      Append(writeResults,
                             [after |-> after,
                              result |-> IF ok1 \/ ok2 THEN "ok"
                                         ELSE "publish sync"])
    /\ UNCHANGED <<writerParams, writer, closeResults, iteratorVars,
                   configVars>>

\* Writer.Write of a record with the payload after.
Write(after) ==
    /\ writer # NoWriter
    /\ Len(writeResults) < MaxWrite
    /\ IF batchUnimplemented(writer.batchSize)
       THEN /\ writeResults' =
                  Append(writeResults,
                         [after |-> after, result |-> "unimplemented"])
            /\ UNCHANGED published
       ELSE \E ok \in PublishOutcomes :
                /\ published' = Append(published, publishCall(after, ok))
                /\ writeResults' =
                      Append(writeResults,
                             [after |-> after,
                              result |-> IF ok THEN "ok"
                                         ELSE "publish sync"])
    /\ UNCHANGED <<writerParams, writer, closeResults, iteratorVars,
                   configVars>>

\* Writer.Close.
Close ==
    /\ writer # NoWriter
    /\ Len(closeResults) < MaxClose
    /\ writer' = [writer EXCEPT
                     !.conn = IF @ # "nil" THEN connClose(@) ELSE @]
    /\ closeResults' = Append(closeResults, "ok")
    /\ UNCHANGED <<writerParams, published, writeResults, iteratorVars,
                   configVars>>

InitWriter == IteratorIdle /\ ConfigIdle /\ WriterInit

NextWriter ==
    \/ NewWriter
    \/ \E after \in Payloads : Write(after)
    \/ Close

SpecWriter == InitWriter /\ [][NextWriter]_vars

(***************************************************************************)
(* Properties.                                                             *)
(***************************************************************************)
\* The position Ack computes for a message of the queue.
PositionOf(msg) == getMessagePosition(msg).position

\* The step in which the Ack of goroutine a, holding the lock, runs its
\* body and returns.
AckReturns(a) == ackPc[a] = "locked" /\ ackPc'[a] = "idle"

\* Whether the Ack of goroutine a asks for something else than the head of
\* the queue.
NotForHead(a) ==
    unackMessages = <<>> \/ PositionOf(unackMessages[1]) # ackPos[a]

\* C1: with an ack policy other than 'none', an Ack that is not for the
\* head of the unacknowledged queue is rejected: with the no-unacknowledged
\* error when the queue is empty, with the out-of-order error when the
\* position asked for differs from the position of the head; no
\* acknowledgment goes to the broker and the queue stays as it is.
C1_AckRejectsNonHead ==
    [][\A a \in Ackers :
         (AckReturns(a) /\ NotForHead(a)) =>
            /\ unackMessages = <<>> =>
                   lastAck' = "no unacknowledged messages"
            /\ unackMessages # <<>> => lastAck' = "ack is out-of-order"
            /\ unackMessages' = unackMessages
            /\ acked' = acked]_vars

\* C1 witness: an Ack was rejected as out of order while two messages were
\* queued and none had been acknowledged.
C1_Witness ==
    /\ lastAck = "ack is out-of-order"
    /\ Len(unackMessages) = 2
    /\ acked = <<>>

\* C2: a successful Ack acknowledges with the broker the message at the
\* head of the queue, and only it, and removes that one entry: the queue
\* is the previous queue without its first element.
C2_AckPopsHead ==
    [][\A a \in Ackers :
         (AckReturns(a) /\ lastAck' = "ok") =>
            /\ unackMessages # <<>>
            /\ PositionOf(unackMessages[1]) = ackPos[a]
            /\ acked' = Append(acked, unackMessages[1])
            /\ unackMessages' = Tail(unackMessages)]_vars

\* C2 witness: one message has been acknowledged with success and another
\* is still queued.
C2_Witness ==
    /\ lastAck = "ok"
    /\ Len(acked) = 1
    /\ Len(unackMessages) = 1
    /\ returned = acked \o unackMessages

\* The goroutines inside a critical section of the iterator lock.
InCritical ==
    {a \in Ackers : ackPc[a] = "locked"}
        \cup (IF nextPc = "append" THEN {"next"} ELSE {})

\* C3: with an ack policy other than 'none', whatever the interleaving of
\* Next and the Acks, the queue holds the messages Next has returned and
\* that have not been acknowledged with success, in the order Next returned
\* them; the append of Next and the check-ack-pop of Ack exclude each
\* other: at most one goroutine is inside, and it holds the lock.
C3_QueueIsReturnedMinusAcked ==
    /\ queuesUnack(ackPolicy) => returned = acked \o unackMessages
    /\ Cardinality(InCritical) <= 1
    /\ \A t \in InCritical : mu = t
    /\ InCritical = {} => mu = "free"

\* C3 witness: an Ack holds the lock with one message queued while Next
\* waits for the lock with a further message.
C3_Witness ==
    /\ \E a \in Ackers : ackPc[a] = "locked"
    /\ nextPc = "lock"
    /\ Len(unackMessages) = 1

\* Whether the messages Next has returned have distinct stream sequences.
DistinctSequences ==
    \A i, j \in 1..Len(returned) :
        i # j => returned[i].seq # returned[j].seq

\* Whether the Ack of goroutine a repeats an Ack that succeeded.
IsDuplicate(a) ==
    \E i \in 1..Len(acked) : PositionOf(acked[i]) = ackPos[a]

\* Whether the Ack of goroutine a is for the first message Next returned
\* that no Ack has acknowledged yet.
IsForNextUnacked(a) ==
    /\ Len(acked) < Len(returned)
    /\ PositionOf(returned[Len(acked) + 1]) = ackPos[a]

\* C4: for messages with distinct stream sequences, an Ack that repeats an
\* Ack that succeeded is rejected (out of order when a message is queued,
\* no-unacknowledged when none is) and changes nothing, and the Ack for the
\* first message not acknowledged yet, whatever rejected Acks came before
\* it, passes the check: it succeeds unless the broker's acknowledgment
\* itself fails.
C4_DuplicateAckRejected ==
    [][\A a \in Ackers :
         (AckReturns(a) /\ DistinctSequences) =>
            /\ IsDuplicate(a) =>
                  /\ lastAck' = IF unackMessages = <<>>
                                THEN "no unacknowledged messages"
                                ELSE "ack is out-of-order"
                  /\ unackMessages' = unackMessages
                  /\ acked' = acked
            /\ IsForNextUnacked(a) =>
                  /\ lastAck' \in {"ok", "ack message"}
                  /\ lastAck' = "ok" =>
                        /\ acked' = Append(acked, returned[Len(acked) + 1])
                        /\ unackMessages' = Tail(unackMessages)]_vars

\* C4 witness: m1 and m2, of distinct sequences, were returned and m1 was
\* acknowledged; an Ack for the position of m1 is running again, m2 queued.
C4_Witness ==
    /\ Len(returned) = 2
    /\ DistinctSequences
    /\ Len(acked) = 1
    /\ Len(unackMessages) = 1
    /\ \E a \in Ackers :
          /\ ackPc[a] = "locked"
          /\ ackPos[a] = PositionOf(acked[1])

\* The optSeq of the record Next returned for a message.
OptSeqOf(msg) == PositionOf(msg)[5]

\* C5 as stated: the optSeq values of the records returned by successive
\* Next calls are strictly increasing, whatever the order of the deliveries.
C5_Original_StrictlyIncreasing ==
    \A i, j \in 1..Len(returned) :
        i < j => OptSeqOf(returned[i]) < OptSeqOf(returned[j])

\* Whether seq + 1 does not wrap around.
BelowMaxSeq(msg) == msg.seq < SeqModulus - 1

\* C5, amended: Next returns the messages in the order the channel accepted
\* them, each with optSeq = stream sequence + 1, so (below the largest
\* sequence number) the optSeq values of two returned records are in the
\* order of the stream sequences of their deliveries: increasing where the
\* broker delivered increasing sequences, decreasing or equal where it
\* reordered or redelivered.
C5_ReturnsInDeliveryOrder ==
    /\ \A i, j \in 1..Len(returned) :
          i < j =>
             /\ returned[i].id < returned[j].id
             /\ (BelowMaxSeq(returned[i]) /\ BelowMaxSeq(returned[j])) =>
                   (OptSeqOf(returned[i]) < OptSeqOf(returned[j])
                       <=> returned[i].seq < returned[j].seq)
    /\ lastNext.kind = "record" =>
          /\ returned # <<>>
          /\ lastNext.record.Position = PositionOf(returned[Len(returned)])
          /\ BelowMaxSeq(returned[Len(returned)]) =>
                lastNext.record.Position[5] = returned[Len(returned)].seq + 1

\* C5 witness: Next has returned two records whose optSeq values decrease,
\* the broker having delivered the later sequence first.
C5_Witness ==
    /\ Len(returned) = 2
    /\ lastNext.kind = "record"
    /\ OptSeqOf(returned[1]) > OptSeqOf(returned[2])

\* How often a position was acknowledged, and how often Next returned it.
TimesAcked(pos) ==
    Cardinality({i \in 1..Len(acked) : PositionOf(acked[i]) = pos})
TimesReturned(pos) ==
    Cardinality({i \in 1..Len(returned) : PositionOf(returned[i]) = pos})

\* C6 as stated: no position is acknowledged with success more than once.
C6_Original_PositionAckedOnce ==
    \A i, j \in 1..Len(acked) :
        i # j => PositionOf(acked[i]) # PositionOf(acked[j])

\* C6, amended: each message Next returned is acknowledged at most once, and
\* a position is acknowledged with success at most as often as Next
\* returned a record with it: a redelivered message has the position of
\* its first delivery and is acknowledged again.
C6_DeliveryAckedOnce ==
    /\ \A i, j \in 1..Len(acked) : i # j => acked[i].id # acked[j].id
    /\ \A i \in 1..Len(acked) :
          TimesAcked(PositionOf(acked[i]))
              <= TimesReturned(PositionOf(acked[i]))

\* C6 witness: two deliveries of one stream sequence were both returned and
\* both acknowledged, under one position.
C6_Witness ==
    /\ Len(acked) = 2
    /\ acked[1].id # acked[2].id
    /\ PositionOf(acked[1]) = PositionOf(acked[2])

\* How often the delivery with an identity is buffered in the channel, and
\* how often Next has returned it.
TimesBuffered(id) ==
    Cardinality({i \in 1..Len(messages) : messages[i].id = id})
TimesReturnedDelivery(id) ==
    Cardinality({i \in 1..Len(returned) : returned[i].id = id})

\* Whether the running Next holds the delivery, received and not returned.
HeldByNext(id) == nextMsg.id = id

\* Whether Stop has not been called.
BeforeStop == stopPc = "idle" /\ lastStop = "none"

\* C7 as stated: before Stop, every message the channel accepted is still
\* buffered, or is with the Next that is about to return it, or was
\* returned as a record by one Next call (and then, with an ack policy
\* other than 'none', was queued as unacknowledged), also when Next
\* returned an error.
C7_Original_NoAcceptedMessageDropped ==
    BeforeStop =>
       \A id \in 1..delivered :
          /\ TimesBuffered(id) + TimesReturnedDelivery(id)
                + (IF HeldByNext(id) THEN 1 ELSE 0) = 1
          /\ (TimesReturnedDelivery(id) = 1 /\ queuesUnack(ackPolicy)) =>
                \E i \in 1..Len(acked \o unackMessages) :
                    (acked \o unackMessages)[i].id = id

\* The steps of the goroutine of Next up to the select's choice of
\* ctx.Done(), and its return from there.
OnCancelPath ==
    \/ nextPc' # nextPc /\ nextPc' \in {"select", "parked", "cancelled"}
    \/ nextPc = "cancelled" /\ nextPc' = "idle"

\* C8: a Next that returns because its context was cancelled returns the
\* cancellation error and no record, has received no message from the
\* channel, and none of its steps changed the channel, the queue of
\* unacknowledged messages or the records returned.
C8_CancelledNextHasNoEffect ==
    [][OnCancelPath =>
          /\ messages' = messages
          /\ unackMessages' = unackMessages
          /\ returned' = returned
          /\ acked' = acked
          /\ nextMsg' = NilMsg
          /\ (nextPc' = "idle") =>
                lastNext' = [kind |-> "cancelled", record |-> NoRecord]]_vars

\* C8 witness: Next returned the cancellation error while a message was
\* buffered in the channel and another was queued as unacknowledged.
C8_Witness ==
    /\ lastNext.kind = "cancelled"
    /\ nextPc = "idle"
    /\ Len(messages) = 1
    /\ Len(unackMessages) = 1

\* C9 as stated, its second half: a Next that has received a message from
\* the channel returns that message's record.
C9_Original_ReceivedMessageReturned ==
    [][(nextPc = "convert" /\ nextMsg # NilMsg /\ nextPc' = "idle") =>
          /\ lastNext'.kind = "record"
          /\ returned' = Append(returned, nextMsg)]_vars

\* C9, the part that holds under FairSpec: a Next whose select has chosen
\* returns; after a cancellation that woke it, the cancellation error;
\* after a message, that message's record or the error of its conversion.
C9_NextTerminates ==
    /\ (nextPc = "cancelled")
          ~> (nextPc = "idle" /\ lastNext.kind = "cancelled")
    /\ (nextPc = "convert")
          ~> (nextPc = "idle" /\ lastNext.kind \in {"record", "convert error"})

\* C10: with the ack policy 'none' every Ack returns nil, whatever the
\* position, no acknowledgment goes to the broker, no Ack takes the lock,
\* and Next never queues a message: the queue of unacknowledged messages
\* is empty in every reachable state.
C10_AckNoneBypass ==
    ackPolicy = AckNonePolicy =>
       /\ unackMessages = <<>>
       /\ acked = <<>>
       /\ lastAck \in {"none", "ok"}
       /\ \A a \in Ackers : ackPc[a] = "idle"
       /\ nextPc \notin {"lock", "append"}

\* C10 witness: under the policy 'none' Next has returned two records and
\* an Ack has returned nil.
C10_Witness ==
    /\ ackPolicy = AckNonePolicy
    /\ Len(returned) = 2
    /\ lastAck = "ok"


\* The optSeq a record's position carries.
RecordOptSeq(c) == c.record.Position[5]

\* C11 as stated: the position of a message with stream sequence s carries
\* optSeq = s + 1 as an unsigned 64-bit value, and of two records the one
\* with the smaller stream sequence has the strictly smaller optSeq.
C11_Original_OptSeqStrictlyIncreasing ==
    \A i, j \in 1..Len(consumed) :
        /\ RecordOptSeq(consumed[i]) = (consumed[i].seq + 1) % SeqModulus
        /\ consumed[i].seq < consumed[j].seq =>
               RecordOptSeq(consumed[i]) < RecordOptSeq(consumed[j])

\* Whether a consumer configuration was built without error.
ConfigBuilt == consumerConfig # NotBuilt /\ consumerConfig.err = ""

\* The stream sequence of the last record the pipeline read.
LastConsumedSeq == consumed[Len(consumed)].seq

\* C12 as stated: an iterator built with the position of a record that Next
\* returned for stream sequence s gets a consumer that delivers by start
\* sequence from s + 1, whatever deliver policy is configured.
C12_Original_ResumesAfterLastRecord ==
    (consumed # <<>> /\ consumerConfig # NotBuilt) =>
        /\ consumerConfig.err = ""
        /\ consumerConfig.config.DeliverPolicy = DeliverByStartSequencePolicy
        /\ consumerConfig.config.OptStartSeq = LastConsumedSeq + 1

\* The optSeq of the position the parameters carry (0 for no position).
ParamsOptSeq ==
    IF params.SDKPosition = <<>> THEN 0 ELSE params.SDKPosition[5]

\* C13: the consumer configuration built for a position with optSeq 0 has
\* the configured deliver policy and start sequence 0; built for a position
\* with optSeq n > 0 it delivers by start sequence from n, whatever deliver
\* policy is configured.
C13_DeliverPolicyFromPosition ==
    ConfigBuilt =>
        /\ ParamsOptSeq = 0 =>
              /\ consumerConfig.config.DeliverPolicy = params.DeliverPolicy
              /\ consumerConfig.config.OptStartSeq = 0
        /\ ParamsOptSeq > 0 =>
              /\ consumerConfig.config.DeliverPolicy =
                     DeliverByStartSequencePolicy
              /\ consumerConfig.config.OptStartSeq = ParamsOptSeq

\* A configuration built for a position with a sequence, with another
\* deliver policy configured.
C13_Witness ==
    /\ ConfigBuilt
    /\ ParamsOptSeq > 0
    /\ params.DeliverPolicy = DeliverNewPolicy
    /\ consumerConfig.config.DeliverPolicy = DeliverByStartSequencePolicy
    /\ consumerConfig.config.OptStartSeq = ParamsOptSeq


\* What Stop tears down.
teardownVars == <<subscribed, chanClosed, consumerExists, connOpen>>

\* The order of the teardown: each step is done only after the one before.
StopInOrder ==
    /\ chanClosed => ~subscribed
    /\ ~consumerExists => chanClosed
    /\ ~connOpen => ~consumerExists

\* A Stop goes from one step to the next only by doing the step, and a
\* step that fails ends the call with that step's error and tears down
\* nothing more.
StopHaltsOnFailure ==
    /\ stopPc = "unsubscribe" =>
          \/ stopPc' = "unsubscribe"
          \/ stopPc' = "close" /\ subscribed /\ ~subscribed'
          \/ /\ stopPc' = "idle"
             /\ lastStop' = "unsubscribe"
             /\ UNCHANGED teardownVars
    /\ stopPc = "close" =>
          \/ stopPc' = "close"
          \/ stopPc' = "delete" /\ ~chanClosed /\ chanClosed'
    /\ stopPc = "delete" =>
          \/ stopPc' = "delete"
          \/ stopPc' = "connclose" /\ consumerExists /\ ~consumerExists'
          \/ /\ stopPc' = "idle"
             /\ lastStop' = "delete consumer"
             /\ UNCHANGED teardownVars
             /\ connOpen'
    /\ stopPc = "connclose" =>
          \/ stopPc' = "connclose"
          \/ stopPc' = "idle" /\ lastStop' = "ok" /\ ~connOpen'

\* C14: Stop unsubscribes, closes the channel, deletes the consumer and
\* closes the connection, in this order.  A step that fails ends the call:
\* after a failed unsubscribe the call closes no channel, deletes no
\* consumer and leaves the connection open; after a failed deletion the
\* connection stays open.  Stop returns success only when all four steps
\* are done.
C14_StopOrderedFailFast ==
    /\ [](StopInOrder
            /\ (lastStop = "ok" =>
                   ~subscribed /\ chanClosed /\ ~consumerExists /\ ~connOpen))
    /\ [][StopHaltsOnFailure]_vars

\* C14 witness: a Stop has failed at the deletion of the consumer, after it
\* unsubscribed and closed the channel; the connection is open.
C14_Witness ==
    /\ stopPc = "idle"
    /\ lastStop = "delete consumer"
    /\ ~subscribed
    /\ chanClosed
    /\ consumerExists
    /\ connOpen

\* No part of the teardown happens twice: what is torn down stays so.
TeardownAtMostOnce ==
    [][/\ ~subscribed => ~subscribed'
       /\ chanClosed => chanClosed'
       /\ ~consumerExists => ~consumerExists'
       /\ (stopPc = "close" /\ stopPc' = "delete") => ~chanClosed]_vars

\* C15 as stated: over any sequence of Stop calls the subscription is
\* unsubscribed, the channel closed and the consumer deleted at most once,
\* and a Stop that finds the subscription already unsubscribed skips the
\* unsubscribe step and goes on with the rest of the cleanup.
C15_Original_RetriedStopProceeds ==
    /\ TeardownAtMostOnce
    /\ [][(stopPc = "unsubscribe" /\ ~subscribed) => stopPc' # "idle"]_vars

\* The Ack of goroutine a is for the record Next returned last, which is
\* still unacknowledged.
ForLastReturned(a) ==
    /\ returned # <<>>
    /\ unackMessages # <<>>
    /\ unackMessages[Len(unackMessages)] = returned[Len(returned)]
    /\ ackPos[a] = PositionOf(returned[Len(returned)])

\* C16 as stated: with ack policy 'all', an Ack for the position of the
\* record returned last succeeds (unless the broker refuses it), also when
\* records returned before it have not been acknowledged.
C16_Original_AckAllAcksLast ==
    [][\A a \in Ackers :
         (AckReturns(a) /\ ackPolicy = AckAllPolicy /\ ForLastReturned(a))
            => lastAck' \in {"ok", "ack message"}]_vars


\* Whether NewWriter has built the writer.
WriterBuilt == writer # NoWriter

C18_WritePublishesOnce ==
    (WriterBuilt /\ writerParams.BatchSize <= 1) =>
        /\ Len(published) = Len(writeResults)
        /\ \A i \in 1..Len(writeResults) :
              /\ published[i].subject = writerParams.Subject
              /\ published[i].data = writeResults[i].after
              /\ published[i].opts = writer.publishOpts
              /\ published[i].ok => writeResults[i].result = "ok"
              /\ ~published[i].ok =>
                     writeResults[i].result = "publish sync"

\* C18 witness: two Write calls to a writer with batch size 1, the first
\* published, the second failed.
C18_Witness ==
    /\ WriterBuilt
    /\ writerParams.BatchSize = 1
    /\ Len(writeResults) = 2
    /\ writeResults[1].result = "ok"
    /\ writeResults[2].result = "publish sync"
    /\ published[1].data # published[2].data

\* C19: every Close returns success, also a repeated one and one after or
\* before Write calls, and leaves the connection closed.
C19_CloseIdempotent ==
    /\ \A i \in 1..Len(closeResults) : closeResults[i] = "ok"
    /\ closeResults # <<>> => writer.conn = "closed"

\* C19 witness: two Close calls and a Write that failed on the closed
\* connection.
C19_Witness ==
    /\ Len(closeResults) = 2
    /\ writer.conn = "closed"
    /\ writeResults # <<>>
    /\ writeResults[Len(writeResults)].result = "publish sync"

\* Whether the options opts hold the option named name.
HasOption(opts, name) == \E i \in 1..Len(opts) : opts[i].option = name

\* C20: the publish options of a writer hold the retry-wait option exactly
\* when the retry wait is not zero and the retry-attempts option exactly
\* when the retry attempts are not zero, each once and with the configured
\* value, and nothing else: none for (0, 0), two for (5s, 3).
C20_PublishOptionsFromParams ==
    WriterBuilt =>
        LET opts == writer.publishOpts
            wait == writerParams.RetryWait
            attempts == writerParams.RetryAttempts
        IN  /\ HasOption(opts, "RetryWait") <=> wait # 0
            /\ HasOption(opts, "RetryAttempts") <=> attempts # 0
            /\ \A i \in 1..Len(opts) :
                   opts[i] \in {RetryWait(wait), RetryAttempts(attempts)}
            /\ \A i, j \in 1..Len(opts) :
                   opts[i].option = opts[j].option => i = j
            /\ (wait = 0 /\ attempts = 0) => opts = <<>>
            /\ (wait = 5 /\ attempts = 3) => Len(opts) = 2

\* C20 witness: the writer of the default retry settings, 5 seconds and 3
\* attempts, with its two options.
C20_Witness ==
    /\ WriterBuilt
    /\ writerParams.RetryWait = 5
    /\ writerParams.RetryAttempts = 3
    /\ writer.publishOpts = <<RetryWait(5), RetryAttempts(3)>>

(***************************************************************************)
(* A failed broker acknowledgment.                                         *)
(***************************************************************************)
\* An Ack call whose position passed the ordering check.
PassedCheck(a) == canAck(unackMessages, ackPos[a]) = "ok"

\* C24: if the ordering check passes but the broker's acknowledgment of the
\* head fails, Ack returns the error "ack message" and leaves the queue of
\* unacknowledged messages as it was: the head is not removed and nothing is
\* recorded as acknowledged, so the same position still passes the check
\* against the same head and a later Ack with it acknowledges that message.
C24_FailedAckKeepsHead ==
    [][\A a \in Ackers :
         (AckReturns(a) /\ PassedCheck(a) /\ lastAck' # "ok") =>
            /\ lastAck' = "ack message"
            /\ unackMessages' = unackMessages
            /\ acked' = acked
            /\ canAck(unackMessages', ackPos[a]) = "ok"]_vars

\* An acknowledgment failed on an open connection and its message is still
\* the head of the queue.
C24_Witness ==
    /\ lastAck = "ack message"
    /\ connOpen
    /\ Len(unackMessages) > 0
    /\ Len(acked) > 0

(***************************************************************************)
(* The position of a record and the position Ack computes.                 *)
(***************************************************************************)
\* The step in which Next returns a record.
NextReturnsRecord == Len(returned') = Len(returned) + 1

\* Whether the record Next returns in this step carries the position Ack
\* computes for its message; the creation time is the broker's timestamp,
\* or the current time when that is zero.
RecordPositionIsAckPosition ==
    LET msg == returned'[Len(returned')]
        record == lastNext'.record IN
    /\ lastNext'.kind = "record"
    /\ record.Position = PositionOf(msg)
    /\ record.Position[4] = msg.ts
    /\ record.CreatedAt # 0
    /\ msg.ts # 0 => record.CreatedAt = msg.ts

\* The errors of the ordering check of Ack.
OrderingErrors ==
    {"no unacknowledged messages", "get position", "ack is out-of-order"}

\* Whether the Ack of goroutine a is for the last record Next has returned,
\* all records before it being acknowledged.
IsForLastReturned(a) ==
    IsForNextUnacked(a) /\ Len(acked) + 1 = Len(returned)

NextHoldsNil == nextPc = "convert" /\ nextMsg = NilMsg

\* Next has returned the error of the conversion.
NextReturnedError == nextPc = "idle" /\ lastNext.kind = "convert error"

\* The step in which Next, holding the nil message, goes on: it returns the
\* error, no record, and appends nothing.
NilIsNotReturned ==
    (NextHoldsNil /\ nextPc' # nextPc) =>
        /\ NextReturnedError'
        /\ returned' = returned
        /\ unackMessages' = unackMessages

\* A step of Stop acknowledges nothing and leaves the queue as it is; the
\* step that closes the channel wakes a Next blocked in the receive.
StopKeepsQueue ==
    (stopPc' # stopPc) =>
        /\ unackMessages' = unackMessages
        /\ acked' = acked
        /\ (nextPc = "parked" /\ chanClosed') => NextHoldsNil'

\* C26: Stop running while Next is blocked on the empty channel does not
\* leave Next blocked: no Next is blocked in the receive once the channel
\* is closed; the Next that the close has woken returns an error, no record,
\* and appends nothing to the queue of unacknowledged messages; Stop sends
\* no acknowledgment and does not change that queue.
C26_StopUnblocksNext ==
    /\ [](chanClosed => nextPc # "parked")
    /\ [][NilIsNotReturned /\ StopKeepsQueue]_vars
    /\ NextHoldsNil ~> NextReturnedError

\* C26 witness: Next was blocked before anything was delivered, Stop closed
\* the channel and is still running, and Next has returned the error with
\* nothing returned or queued.
C26_Witness ==
    /\ delivered = 0
    /\ chanClosed
    /\ stopPc = "delete"
    /\ NextReturnedError
    /\ returned = <<>>
    /\ unackMessages = <<>>

(***************************************************************************)
(* HasNext and the Next that follows it.                                   *)
(***************************************************************************)
\* The last HasNext call, made while no Next was running, returned true.
PolledTrue == hasNext # NoPoll /\ hasNext.result /\ hasNext.nextIdle

\* A step of a HasNext call: the result is true iff the channel buffers a
\* message, and neither the channel nor the queue changes.
HasNextReportsBuffer ==
    (hasNext' # hasNext) =>
        /\ hasNext'.result = (Len(messages) > 0)
        /\ messages' = messages
        /\ unackMessages' = unackMessages

\* No Next blocks in the receive after HasNext returned true, unless a
\* message has left the channel since.
NextNeedNotWait ==
    (nextPc' = "parked" /\ nextPc # "parked") =>
        ~(PolledTrue /\ hasNext.drained = Drained)

\* The step in which the first Next after a HasNext that returned true
\* returns, having taken the one message that left the channel since.
FirstNextReturns ==
    /\ PolledTrue
    /\ Drained = hasNext.drained + 1
    /\ nextPc \in {"convert", "append"}
    /\ nextPc' = "idle"

\* C22 without its last part: HasNext can be called in every state, returns
\* true iff the channel buffers a message and changes neither the channel
\* nor the queue; a Next after a HasNext that returned true does not wait
\* and returns the record of the buffered message or the error of its
\* conversion.
C22_HasNextThenNextReturns ==
    /\ [](ENABLED HasNextCall)
    /\ [][HasNextReportsBuffer /\ NextNeedNotWait]_vars
    /\ [][FirstNextReturns =>
             lastNext'.kind \in {"record", "convert error"}]_vars

\* C22 as stated: HasNext can be called in every state, returns true iff the
\* channel buffers a message and changes neither the channel nor the queue;
\* a Next after a HasNext that returned true does not wait and returns a
\* record.
C22_Original_NextAfterHasNextReturnsRecord ==
    /\ [](ENABLED HasNextCall)
    /\ [][HasNextReportsBuffer /\ NextNeedNotWait]_vars
    /\ [][FirstNextReturns => lastNext'.kind = "record"]_vars

\* HasNext returned true and the Next after it has returned a record.
C22_RecordAfterHasNext ==
    /\ PolledTrue
    /\ Drained = hasNext.drained + 1
    /\ nextPc = "idle"
    /\ lastNext.kind = "record"

(***************************************************************************)
(* A construction that fails.                                              *)
(***************************************************************************)
\* NewIterator has returned.
Returned == newIterator # NotCalled

\* The position of the parameters cannot be decoded.
PositionUndecodable == parsePosition(params.SDKPosition).err # ""

\* Nothing of an iterator exists: no consumer on the broker, no
\* subscription, no iterator returned, and so no Stop was ever called.
NoPartialState ==
    /\ ~consumerExists
    /\ ~subscribed
    /\ ~newIterator.iterator
    /\ stopPc = "idle"
    /\ lastStop = "none"

\* C21: a construction that fails on the consumer configuration (the
\* position of the parameters cannot be decoded) returns the error and
\* creates nothing: no consumer is registered with the broker, no
\* subscription is opened and no iterator is returned; and a position that
\* cannot be decoded always fails the construction, at the configuration
\* or before it.
C21_ConfigErrorNoPartialState ==
    /\ (Returned /\ newIterator.err = "get consumer config") =>
           /\ PositionUndecodable
           /\ consumerConfig.err = "parse position"
           /\ NoPartialState
    /\ (Returned /\ PositionUndecodable) =>
           /\ newIterator.err \in
                  {"get jetstream context", "get consumer config"}
           /\ NoPartialState

\* C21 witness: NewIterator has returned the configuration error for a
\* position that cannot be decoded.
C21_Witness ==
    /\ Returned
    /\ params.SDKPosition = MalformedPosition
    /\ newIterator.err = "get consumer config"
    /\ consumerConfig # NotBuilt
    /\ ~consumerExists

\* C25: when NewIterator has registered the consumer and the subscription
\* then fails, it returns the error "chan subscribe" and no iterator, and
\* the consumer stays registered with the broker from then on: there is no
\* subscription and no instance whose Stop could delete it.
C25_FailedSubscribeLeavesConsumer ==
    (Returned /\ newIterator.err = "chan subscribe") =>
        /\ ~newIterator.iterator
        /\ consumerConfig.err = ""
        /\ consumerExists
        /\ ~subscribed
        /\ stopPc = "idle"
        /\ lastStop = "none"

\* C25 witness: NewIterator has failed at the subscription and the broker
\* holds the consumer.
C25_Witness ==
    /\ Returned
    /\ newIterator.err = "chan subscribe"
    /\ consumerExists
    /\ connOpen

=============================================================================
